---- MODULE Spec2Model ----
(***************************************************************************)
(* Model of the IotPaymentFhe contract (src/unnamed/part_000, the Solidity *)
(* part starting at line 117): access control, rate limiter, payment       *)
(* ledger, batch manager and the decryption request / callback protocol.   *)
(*                                                                         *)
(* Every external function is one action.  The outcome of a call is the    *)
(* first failing check in source order (the ...Err operators); a call that *)
(* reverts leaves every variable as it was, because the EVM rolls back     *)
(* every write of a reverted call.                                         *)
(***************************************************************************)
EXTENDS Integers, Sequences, FiniteSets, TLC

(* ------------------------------ bounds -------------------------------- *)
MaxTicks == 2
MaxBatches == 2
MaxPayments == 3
MaxRequests == 2

(* --------------------------- program constants ------------------------ *)
\* cooldownSeconds = 60 set by the constructor
DefaultCooldown == 60
\* stand-in for type(uint256).max: the largest value a uint256 holds; every
\* time stamp of the model is far below it
MaxUint256 == 2147483647
\* a 32 bit word (euint32 / uint32) is kept as two 16 bit limbs <<hi, lo>>
Base == 65536

\* the clock advances in steps of one default cooldown
TimeStep == DefaultCooldown
MaxTime == MaxTicks * TimeStep

Addresses == {"alice", "bob"}
Deployer == "alice"
\* the decryption oracle (relayer) the FHE library sends requests to
Oracle == "oracle"
CallbackCallers == {Oracle, "bob"}

Zero32 == <<0, 0>>
Max32 == <<Base - 1, Base - 1>>
Amounts == {<<0, 10>>, <<0, 15>>, Max32}
OneUser == {"bob"}
CooldownChoices == {DefaultCooldown, 2 * DefaultCooldown, MaxUint256}
OneAmount == {<<0, 10>>}
ShortCooldowns == {0, DefaultCooldown, 2 * DefaultCooldown}
RequestIds == 0..MaxRequests

VARIABLES
    owner,                      \* address public owner
    providers,                  \* mapping(address => bool)
    paused,                     \* bool public paused
    cooldownSeconds,            \* uint256
    lastSubmissionTime,         \* mapping(address => uint256)
    lastDecryptionRequestTime,  \* mapping(address => uint256)
    payments,                   \* Payment[]
    batches,                    \* Batch[] (position i+1 holds batch id i)
    decryptionContexts,         \* mapping(uint256 => DecryptionContext)
    counterRequest,             \* request counter of the FHE library
    requestedCts,               \* ciphertexts the library saved per requestId
    now,                        \* block.timestamp
    paymentBatchId,             \* batchId of each PaymentSubmitted event
    paymentCooldown,            \* cooldownSeconds in force when each payment was accepted
    completed                   \* DecryptionCompleted events, per requestId

storage == <<owner, providers, paused, cooldownSeconds, lastSubmissionTime,
             lastDecryptionRequestTime, payments, batches, decryptionContexts,
             counterRequest, requestedCts>>
events == <<paymentBatchId, paymentCooldown, completed>>
vars == <<owner, providers, paused, cooldownSeconds, lastSubmissionTime,
          lastDecryptionRequestTime, payments, batches, decryptionContexts,
          counterRequest, requestedCts, now, paymentBatchId, paymentCooldown,
          completed>>

(* ------------------------- the FHE collaborator ----------------------- *)
\* 32 bit wrapping addition on limb pairs
Add32(a, b) ==
    LET lo == a[2] + b[2]
        hi == a[1] + b[1] + (lo \div Base)
    IN  <<hi % Base, lo % Base>>

\* FHE.asEuint32(v): trivial encryption; the handle is determined by the value
FHE_asEuint32(v) == [h |-> <<v>>, pt |-> v]

\* FHE.add that stops at the largest 32 bit value instead of wrapping
FHE_addSaturating(a, b) ==
    [h |-> a.h \o b.h,
     pt |-> IF a.pt[1] + b.pt[1] + ((a.pt[2] + b.pt[2]) \div Base) >= Base
            THEN <<Base - 1, Base - 1>> ELSE Add32(a.pt, b.pt)]

\* FHE.add with the sum replaced by the right operand (an assignment where
\* an accumulation was meant)
FHE_addOverwrite(a, b) == [h |-> a.h \o b.h, pt |-> b.pt]

\* FHE.add(a, b): the handle is determined by the operand handles in order,
\* the plaintext behind it is the 32 bit wrapping sum
FHE_add(a, b) == [h |-> a.h \o b.h, pt |-> Add32(a.pt, b.pt)]

\* FHE.toBytes32(ct): the handle
FHE_toBytes32(ct) == ct.h

\* bytes32(0), the stateHash of a context that was never written
ZeroHash == << >>
ThisAddress == "this"

\* keccak256(abi.encode(cts, address(this))): injective, never zero
hashCiphertexts(cts) == <<cts, ThisAddress>>

\* abi.encode(uint256): one 32 byte big endian word, here 16 limbs of 16 bits
abi_encode(v) == [i \in 1..16 |-> IF i = 15 THEN v[1] ELSE IF i = 16 THEN v[2] ELSE 0]
\* abi.decode that keeps the lowest 16 bits of the word only
abi_decodeLow(bytes) == [i \in 1..16 |-> IF i = 16 THEN bytes[i] ELSE 0]

\* abi.decode(cleartexts, (uint256)): the word as a number (hi limbs first)
abi_decode(bytes) == bytes

\* a proof the KMS issued for a list of ciphertexts: it signs the handles and
\* the abi-encoded plaintexts
KmsSign(cts) == <<[i \in DOMAIN cts |-> cts[i].h], abi_encode(cts[1].pt)>>
Forged == << >>

\* FHE.checkSignatures(requestId, cleartexts, proof): the library loads the
\* handles saved for requestId and verifies the signatures over them and the
\* cleartexts
FHE_checkSignatures(requestId, cleartexts, proof) ==
    /\ requestedCts[requestId] # << >>
    /\ proof = <<[i \in DOMAIN requestedCts[requestId] |-> requestedCts[requestId][i].h],
                 cleartexts>>

(* ------------------------------ modifiers ----------------------------- *)
\* onlyOwner with the check left out
onlyOwnerMissing(caller) == "ok"

onlyOwner(caller) == IF caller # owner THEN "NotOwner" ELSE "ok"

\* onlyProvider with the check left out
onlyProviderMissing(caller) == "ok"

onlyProvider(caller) == IF ~providers[caller] THEN "NotProvider" ELSE "ok"

\* whenNotPaused with the check left out
whenNotPausedMissing == "ok"

whenNotPaused == IF paused THEN "Paused" ELSE "ok"

\* checks run in source order: the first one that fails decides
Then(check, rest) == IF check # "ok" THEN check ELSE rest

\* the cooldown comparison with <= in place of <
cooldownCheckInclusive(lastTime) ==
    IF lastTime > MaxUint256 - cooldownSeconds THEN "Panic"
    ELSE IF now <= lastTime + cooldownSeconds THEN "CooldownActive"
    ELSE "ok"

\* the cooldown comparison with the constructor's value in place of the
\* current cooldownSeconds
cooldownCheckDefault(lastTime) ==
    IF lastTime > MaxUint256 - DefaultCooldown THEN "Panic"
    ELSE IF now < lastTime + DefaultCooldown THEN "CooldownActive"
    ELSE "ok"

\* the cooldown comparison with cooldownSeconds left out of the sum
cooldownCheckNoCooldown(lastTime) ==
    IF lastTime > MaxUint256 - cooldownSeconds THEN "Panic"
    ELSE IF now < lastTime THEN "CooldownActive"
    ELSE "ok"

\* `block.timestamp < lastTime + cooldownSeconds` in checked uint256
\* arithmetic: the addition panics when it exceeds type(uint256).max
cooldownCheck(lastTime) ==
    IF lastTime > MaxUint256 - cooldownSeconds THEN "Panic"
    ELSE IF now < lastTime + cooldownSeconds THEN "CooldownActive"
    ELSE "ok"

\* the open-batch check without the test of the closed flag
batchOpenCheckNoFlag ==
    IF Len(batches) = 0 THEN "BatchClosedOrNonexistent" ELSE "ok"

batchOpenCheck ==
    IF Len(batches) = 0 \/ batches[Len(batches)].closed
    THEN "BatchClosedOrNonexistent" ELSE "ok"

\* the closed-batch check without the test of the closed flag
batchClosedCheckNoFlag(batchId) ==
    IF batchId >= Len(batches) THEN "InvalidBatch" ELSE "ok"

batchClosedCheck(batchId) ==
    IF batchId >= Len(batches) \/ ~batches[batchId + 1].closed
    THEN "InvalidBatch" ELSE "ok"

\* a revert that keeps the time stamp written before the failing check
RevertedNoRollback ==
    /\ \E c \in Addresses :
          lastSubmissionTime' = [lastSubmissionTime EXCEPT ![c] = now]
    /\ UNCHANGED <<owner, providers, paused, cooldownSeconds,
                   lastDecryptionRequestTime, payments, batches,
                   decryptionContexts, counterRequest, requestedCts, now, events>>

\* a reverted call: every write is rolled back, no event is emitted
Reverted == UNCHANGED vars

(* -------------------------------- Init -------------------------------- *)
\* the contract is deployed at a block.timestamp at least one default
\* cooldown past zero, the time stamp the fresh maps read
DefaultContext == [batchId |-> 0, stateHash |-> ZeroHash, processed |-> FALSE]

Init ==
    /\ owner = Deployer
    /\ providers = [a \in Addresses |-> FALSE]
    /\ paused = FALSE
    /\ cooldownSeconds = DefaultCooldown
    /\ lastSubmissionTime = [a \in Addresses |-> 0]
    /\ lastDecryptionRequestTime = [a \in Addresses |-> 0]
    /\ payments = << >>
    /\ batches = << >>
    /\ decryptionContexts = [r \in RequestIds |-> DefaultContext]
    /\ counterRequest = 0
    /\ requestedCts = [r \in RequestIds |-> << >>]
    /\ now = TimeStep
    /\ paymentBatchId = << >>
    /\ paymentCooldown = << >>
    /\ completed = [r \in RequestIds |-> << >>]

(* --------------------------- access control --------------------------- *)
transferOwnershipErr(caller) == onlyOwner(caller)

transferOwnership(caller, newOwner) ==
    LET err == transferOwnershipErr(caller) IN
    IF err # "ok" THEN Reverted
    ELSE /\ owner' = newOwner
         /\ UNCHANGED <<providers, paused, cooldownSeconds, lastSubmissionTime,
                        lastDecryptionRequestTime, payments, batches,
                        decryptionContexts, counterRequest, requestedCts,
                        now, events>>

addProviderErr(caller) == onlyOwner(caller)

\* addProvider flipping the flag instead of setting it
addProviderToggle(caller, provider) ==
    LET err == addProviderErr(caller) IN
    IF err # "ok" THEN Reverted
    ELSE /\ providers' = [providers EXCEPT ![provider] = ~providers[provider]]
         /\ UNCHANGED <<owner, paused, cooldownSeconds, lastSubmissionTime,
                        lastDecryptionRequestTime, payments, batches,
                        decryptionContexts, counterRequest, requestedCts,
                        now, events>>

addProvider(caller, provider) ==
    LET err == addProviderErr(caller) IN
    IF err # "ok" THEN Reverted
    ELSE /\ providers' = [providers EXCEPT ![provider] = TRUE]
         /\ UNCHANGED <<owner, paused, cooldownSeconds, lastSubmissionTime,
                        lastDecryptionRequestTime, payments, batches,
                        decryptionContexts, counterRequest, requestedCts,
                        now, events>>

removeProviderErr(caller) == onlyOwner(caller)

removeProvider(caller, provider) ==
    LET err == removeProviderErr(caller) IN
    IF err # "ok" THEN Reverted
    ELSE /\ providers' = [providers EXCEPT ![provider] = FALSE]
         /\ UNCHANGED <<owner, paused, cooldownSeconds, lastSubmissionTime,
                        lastDecryptionRequestTime, payments, batches,
                        decryptionContexts, counterRequest, requestedCts,
                        now, events>>

setPausedErr(caller) == onlyOwner(caller)

setPaused(caller, _paused) ==
    LET err == setPausedErr(caller) IN
    IF err # "ok" THEN Reverted
    ELSE /\ paused' = _paused
         /\ UNCHANGED <<owner, providers, cooldownSeconds, lastSubmissionTime,
                        lastDecryptionRequestTime, payments, batches,
                        decryptionContexts, counterRequest, requestedCts,
                        now, events>>

setCooldownSecondsErr(caller) == onlyOwner(caller)

setCooldownSeconds(caller, newCooldownSeconds) ==
    LET err == setCooldownSecondsErr(caller) IN
    IF err # "ok" THEN Reverted
    ELSE /\ cooldownSeconds' = newCooldownSeconds
         /\ UNCHANGED <<owner, providers, paused, lastSubmissionTime,
                        lastDecryptionRequestTime, payments, batches,
                        decryptionContexts, counterRequest, requestedCts,
                        now, events>>

(* ----------------------- ledger and batch manager --------------------- *)
openBatchErr(caller) ==
    Then(onlyProvider(caller),
    Then(whenNotPaused,
         cooldownCheck(lastSubmissionTime[caller])))

\* openBatch numbering the batches from one
openBatchIdFromOne(caller) ==
    LET err == openBatchErr(caller)
        batchId == Len(batches) + 1
    IN
    IF err # "ok" THEN Reverted
    ELSE /\ Len(batches) < MaxBatches
         /\ lastSubmissionTime' = [lastSubmissionTime EXCEPT ![caller] = now]
         /\ batches' = Append(batches,
                [id |-> batchId, totalEncryptedAmount |-> FHE_asEuint32(Zero32),
                 closed |-> FALSE])
         /\ UNCHANGED <<owner, providers, paused, cooldownSeconds,
                        lastDecryptionRequestTime, payments,
                        decryptionContexts, counterRequest, requestedCts,
                        now, events>>

openBatch(caller) ==
    LET err == openBatchErr(caller)
        batchId == Len(batches)
    IN
    IF err # "ok" THEN Reverted
    ELSE /\ Len(batches) < MaxBatches
         /\ lastSubmissionTime' = [lastSubmissionTime EXCEPT ![caller] = now]
         /\ batches' = Append(batches,
                [id |-> batchId, totalEncryptedAmount |-> FHE_asEuint32(Zero32),
                 closed |-> FALSE])
         /\ UNCHANGED <<owner, providers, paused, cooldownSeconds,
                        lastDecryptionRequestTime, payments,
                        decryptionContexts, counterRequest, requestedCts,
                        now, events>>

\* the write of lastSubmissionTime precedes the batch check; a revert at the
\* batch check undoes it
submitPaymentErr(caller) ==
    Then(onlyProvider(caller),
    Then(whenNotPaused,
    Then(cooldownCheck(lastSubmissionTime[caller]),
         batchOpenCheck)))

\* submitPayment writing the entry over the last one of the ledger
submitPaymentOverwriteLast(caller, encryptedAmount) ==
    LET err == submitPaymentErr(caller)
        cur == Len(batches)
        userEncryptedAmount == FHE_asEuint32(encryptedAmount)
        entry == [provider |-> caller, encryptedAmount |-> userEncryptedAmount,
                  submissionTimestamp |-> now]
    IN
    IF err # "ok" THEN Reverted
    ELSE /\ Len(payments) < MaxPayments
         /\ lastSubmissionTime' = [lastSubmissionTime EXCEPT ![caller] = now]
         /\ payments' = IF payments = << >> THEN <<entry>>
                        ELSE [payments EXCEPT ![Len(payments)] = entry]
         /\ batches' = [batches EXCEPT ![cur].totalEncryptedAmount =
                FHE_add(batches[cur].totalEncryptedAmount, userEncryptedAmount)]
         /\ UNCHANGED <<owner, providers, paused, cooldownSeconds,
                        lastDecryptionRequestTime, decryptionContexts,
                        counterRequest, requestedCts, now, events>>

submitPayment(caller, encryptedAmount) ==
    LET err == submitPaymentErr(caller)
        cur == Len(batches)
        userEncryptedAmount == FHE_asEuint32(encryptedAmount)
    IN
    IF err # "ok" THEN Reverted
    ELSE /\ Len(payments) < MaxPayments
         /\ lastSubmissionTime' = [lastSubmissionTime EXCEPT ![caller] = now]
         /\ payments' = Append(payments,
                [provider |-> caller, encryptedAmount |-> userEncryptedAmount,
                 submissionTimestamp |-> now])
         /\ batches' = [batches EXCEPT ![cur].totalEncryptedAmount =
                FHE_add(batches[cur].totalEncryptedAmount, userEncryptedAmount)]
         /\ paymentBatchId' = Append(paymentBatchId, batches[cur].id)
         /\ paymentCooldown' = Append(paymentCooldown, cooldownSeconds)
         /\ UNCHANGED <<owner, providers, paused, cooldownSeconds,
                        lastDecryptionRequestTime, decryptionContexts,
                        counterRequest, requestedCts, now, completed>>

closeBatchErr(caller) ==
    Then(onlyProvider(caller),
    Then(whenNotPaused,
         batchOpenCheck))

\* closeBatch closing the first batch instead of the latest one
closeBatchFirst(caller) ==
    /\ closeBatchErr(caller) = "ok"
    /\ batches' = [batches EXCEPT ![1].closed = TRUE]
    /\ UNCHANGED <<owner, providers, paused, cooldownSeconds,
                   lastSubmissionTime, lastDecryptionRequestTime,
                   payments, decryptionContexts, counterRequest,
                   requestedCts, now, events>>

closeBatch(caller) ==
    LET err == closeBatchErr(caller)
        cur == Len(batches)
    IN
    IF err # "ok" THEN Reverted
    ELSE /\ batches' = [batches EXCEPT ![cur].closed = TRUE]
         /\ UNCHANGED <<owner, providers, paused, cooldownSeconds,
                        lastSubmissionTime, lastDecryptionRequestTime,
                        payments, decryptionContexts, counterRequest,
                        requestedCts, now, events>>

(* ---------------------- decryption request protocol ------------------- *)
\* a request counter that hands out the same requestId every time
FHE_requestDecryptionReuse(cts) == 0

\* FHE.requestDecryption(cts, selector): the library's request counter, a
\* requestId never handed out before
FHE_requestDecryption(cts) == counterRequest

\* the request rate-limited by the submission clock
requestBatchTotalDecryptionErrSharedClock(caller, batchId) ==
    Then(whenNotPaused,
    Then(cooldownCheck(lastSubmissionTime[caller]),
         batchClosedCheck(batchId)))

\* the request restricted to providers
requestBatchTotalDecryptionErrProviderOnly(caller, batchId) ==
    Then(onlyProvider(caller),
    Then(whenNotPaused,
    Then(cooldownCheck(lastDecryptionRequestTime[caller]),
         batchClosedCheck(batchId))))

requestBatchTotalDecryptionErr(caller, batchId) ==
    Then(whenNotPaused,
    Then(cooldownCheck(lastDecryptionRequestTime[caller]),
         batchClosedCheck(batchId)))

requestBatchTotalDecryption(caller, batchId) ==
    LET err == requestBatchTotalDecryptionErr(caller, batchId) IN
    IF err # "ok" THEN Reverted
    ELSE LET cts == <<batches[batchId + 1].totalEncryptedAmount>>
             stateHash == hashCiphertexts(<<FHE_toBytes32(cts[1])>>)
             requestId == FHE_requestDecryption(cts)
         IN
         /\ counterRequest < MaxRequests
         /\ lastDecryptionRequestTime' =
                [lastDecryptionRequestTime EXCEPT ![caller] = now]
         /\ counterRequest' = counterRequest + 1
         /\ requestedCts' = [requestedCts EXCEPT ![requestId] = cts]
         /\ decryptionContexts' = [decryptionContexts EXCEPT ![requestId] =
                [batchId |-> batchId, stateHash |-> stateHash, processed |-> FALSE]]
         /\ UNCHANGED <<owner, providers, paused, cooldownSeconds,
                        lastSubmissionTime, payments, batches, now, events>>

\* the replay check left out
replayCheckMissing(requestId) == "ok"

replayCheck(requestId) ==
    IF decryptionContexts[requestId].processed THEN "ReplayAttempt" ELSE "ok"

\* the state check without the comparison of the fingerprints
stateCheckNoHash(requestId) ==
    batchClosedCheck(decryptionContexts[requestId].batchId)

stateCheck(requestId) ==
    LET batchId == decryptionContexts[requestId].batchId IN
    IF batchClosedCheck(batchId) # "ok" THEN batchClosedCheck(batchId)
    ELSE IF hashCiphertexts(<<FHE_toBytes32(batches[batchId + 1].totalEncryptedAmount)>>)
            # decryptionContexts[requestId].stateHash
    THEN "StateMismatch" ELSE "ok"

\* the proof check left out
proofCheckMissing(requestId, cleartexts, proof) == "ok"

proofCheck(requestId, cleartexts, proof) ==
    IF ~FHE_checkSignatures(requestId, cleartexts, proof) THEN "InvalidProof" ELSE "ok"

\* myCallback is public and carries no modifier: neither the caller nor the
\* pause flag is looked at
myCallbackErr(caller, requestId, cleartexts, proof) ==
    Then(replayCheck(requestId),
    Then(stateCheck(requestId),
         proofCheck(requestId, cleartexts, proof)))

\* myCallback writing the whole context instead of its processed flag
myCallbackClearsContext(caller, requestId, cleartexts, proof) ==
    LET err == myCallbackErr(caller, requestId, cleartexts, proof) IN
    IF err # "ok" THEN Reverted
    ELSE LET batchId == decryptionContexts[requestId].batchId
             totalAmount == abi_decode(cleartexts)
         IN
         /\ decryptionContexts' =
                [decryptionContexts EXCEPT ![requestId] =
                    [batchId |-> 0, stateHash |-> ZeroHash, processed |-> TRUE]]
         /\ completed' = [completed EXCEPT ![requestId] = Append(@,
                [requestId |-> requestId, batchId |-> batchId,
                 totalAmount |-> totalAmount])]
         /\ UNCHANGED <<owner, providers, paused, cooldownSeconds,
                        lastSubmissionTime, lastDecryptionRequestTime,
                        payments, batches, counterRequest, requestedCts,
                        now, paymentBatchId, paymentCooldown>>

myCallback(caller, requestId, cleartexts, proof) ==
    LET err == myCallbackErr(caller, requestId, cleartexts, proof) IN
    IF err # "ok" THEN Reverted
    ELSE LET batchId == decryptionContexts[requestId].batchId
             totalAmount == abi_decode(cleartexts)
         IN
         /\ decryptionContexts' =
                [decryptionContexts EXCEPT ![requestId].processed = TRUE]
         /\ completed' = [completed EXCEPT ![requestId] = Append(@,
                [requestId |-> requestId, batchId |-> batchId,
                 totalAmount |-> totalAmount])]
         /\ UNCHANGED <<owner, providers, paused, cooldownSeconds,
                        lastSubmissionTime, lastDecryptionRequestTime,
                        payments, batches, counterRequest, requestedCts,
                        now, paymentBatchId, paymentCooldown>>

\* payloads and proofs a caller of myCallback can present: what the KMS
\* signed for the requests issued so far, a fixed other payload and a
\* forged proof
IssuedRequests == {r \in RequestIds : requestedCts[r] # << >>}
WrongPayload == abi_encode(<<0, 7>>)
Payloads == {KmsSign(requestedCts[r])[2] : r \in IssuedRequests} \cup {WrongPayload}
Proofs == {KmsSign(requestedCts[r]) : r \in IssuedRequests} \cup {Forged}
\* the requestIds a callback is sent for: the issued ones and the next one,
\* which no request has stored a context for
CallbackRequestIds == {r \in RequestIds : r <= counterRequest}
\* <<cleartexts, proof>>: a payload with the proof issued for it, a payload
\* other than the signed one under an issued proof, and a payload under a forged
\* proof
CallbackInputs ==
    {<<p[2], p>> : p \in Proofs \ {Forged}}
    \cup {<<WrongPayload, p>> : p \in Proofs}
    \cup {<<c, Forged>> : c \in Payloads}

(* -------------------------------- clock ------------------------------- *)
Tick ==
    /\ now + TimeStep <= MaxTime
    /\ now' = now + TimeStep
    /\ UNCHANGED <<storage, events>>

(* The complete contract: every function and every change of the          *)
(* administration.  One user (the only provider candidate and the only     *)
(* requester of decryptions, provider or not at the time) keeps the ledger *)
(* small next to the administration.                                       *)
Next ==
    \/ \E c \in Addresses, a \in Addresses : transferOwnership(c, a)
    \/ \E c \in Addresses, a \in OneUser : addProvider(c, a)
    \/ \E c \in Addresses, a \in OneUser : removeProvider(c, a)
    \/ \E c \in Addresses, b \in BOOLEAN : setPaused(c, b)
    \/ \E c \in Addresses, v \in CooldownChoices : setCooldownSeconds(c, v)
    \/ \E c \in Addresses : openBatch(c)
    \/ \E c \in Addresses, v \in Amounts : submitPayment(c, v)
    \/ \E c \in Addresses : closeBatch(c)
    \/ \E c \in OneUser, b \in 0..MaxBatches : requestBatchTotalDecryption(c, b)
    \/ \E c \in CallbackCallers, r \in CallbackRequestIds, in \in CallbackInputs :
            myCallback(c, r, in[1], in[2])
    \/ Tick

Spec == Init /\ [][Next]_vars

(* The payment ledger and the batches with two provider candidates: the   *)
(* deployer stays owner, the system stays unpaused and the cooldown stays  *)
(* at its default.                                                         *)
NextLedger ==
    \/ \E c \in Addresses, a \in Addresses : addProvider(c, a)
    \/ \E c \in Addresses, a \in Addresses : removeProvider(c, a)
    \/ \E c \in Addresses : openBatch(c)
    \/ \E c \in Addresses, v \in Amounts : submitPayment(c, v)
    \/ \E c \in Addresses : closeBatch(c)
    \/ Tick

SpecLedger == Init /\ [][NextLedger]_vars

(* The ledger with two provider candidates followed by the decryption      *)
(* protocol: batches that took payments of two providers are closed,       *)
(* requested and finalized by the oracle.  One user opens and closes the   *)
(* batches and requests the decryptions; the deployer stays owner, the     *)
(* system stays unpaused and the cooldown stays at its default.            *)
NextDecrypt ==
    \/ \E c \in Addresses, a \in Addresses : addProvider(c, a)
    \/ \E c \in OneUser : openBatch(c)
    \/ \E c \in Addresses, v \in Amounts : submitPayment(c, v)
    \/ \E c \in OneUser : closeBatch(c)
    \/ \E c \in OneUser, b \in 0..MaxBatches : requestBatchTotalDecryption(c, b)
    \/ \E r \in CallbackRequestIds, in \in CallbackInputs :
            myCallback(Oracle, r, in[1], in[2])
    \/ Tick

SpecDecrypt == Init /\ [][NextDecrypt]_vars

(* The ledger under a cooldown the owner changes, the cooldown 0 included: *)
(* a provider submits several times at one time stamp and at time stamps   *)
(* closer than the default cooldown.  The deployer stays owner and the     *)
(* system stays unpaused.                                                  *)
NextCooldown ==
    \/ \E c \in Addresses, a \in OneUser : addProvider(c, a)
    \/ \E c \in Addresses, v \in ShortCooldowns : setCooldownSeconds(c, v)
    \/ \E c \in OneUser : openBatch(c)
    \/ \E c \in Addresses, v \in OneAmount : submitPayment(c, v)
    \/ \E c \in OneUser : closeBatch(c)
    \/ Tick

SpecCooldown == Init /\ [][NextCooldown]_vars

(* ======================================================================= *)
(* The claims                                                              *)
(* ======================================================================= *)
RECURSIVE SeqOfBatch(_, _)
\* the contributions PaymentSubmitted reported for batch b, in ledger order
SeqOfBatch(b, i) ==
    IF i > Len(payments) THEN << >>
    ELSE IF paymentBatchId[i] = b
         THEN <<payments[i].encryptedAmount.pt>> \o SeqOfBatch(b, i + 1)
         ELSE SeqOfBatch(b, i + 1)
Contributions(b) == SeqOfBatch(b, 1)

RECURSIVE SumLimb(_, _)
SumLimb(seq, k) == IF seq = << >> THEN 0 ELSE Head(seq)[k] + SumLimb(Tail(seq), k)

\* the sum of 32 bit values as a natural number: <<hi, lo>> with lo < Base
\* and hi as large as it gets
NatSum(seq) ==
    <<SumLimb(seq, 1) + (SumLimb(seq, 2) \div Base), SumLimb(seq, 2) % Base>>
\* the sum modulo 2^32
SumMod32(seq) == <<NatSum(seq)[1] % Base, NatSum(seq)[2]>>

Perms(n) == {f \in [1..n -> 1..n] : \A i, j \in 1..n : f[i] = f[j] => i = j}

RECURSIVE FoldEncrypted(_, _)
\* what submitPayment accumulates when the values of seq arrive in this order
FoldEncrypted(acc, seq) ==
    IF seq = << >> THEN acc
    ELSE FoldEncrypted(FHE_add(acc, FHE_asEuint32(Head(seq))), Tail(seq))

AllPayloads == Payloads
AllProofs == Proofs
LatestOpen == Len(batches) > 0 /\ ~batches[Len(batches)].closed

\* C1 as stated: the plaintext aggregate of every batch is the sum (as a
\* number) of the contributions accepted into it.
C1_AggregateIsExactSum ==
    \A i \in DOMAIN batches :
        batches[i].totalEncryptedAmount.pt = NatSum(Contributions(batches[i].id))

\* C1 amended: the plaintext aggregate of every batch is the sum modulo 2^32
\* of the contributions accepted into it, and accumulating the same
\* contributions in any other order gives the same plaintext.
C1_AggregateIsSumMod32 ==
    \A i \in DOMAIN batches :
        LET cs == Contributions(batches[i].id)
            pt == batches[i].totalEncryptedAmount.pt
        IN  /\ pt = SumMod32(cs)
            /\ \A f \in Perms(Len(cs)) :
                  FoldEncrypted(FHE_asEuint32(Zero32),
                                [k \in 1..Len(cs) |-> cs[f[k]]]).pt = pt

\* a batch that took two different contributions whose sum wrapped
C1_Witness ==
    \E i \in DOMAIN batches :
        LET cs == Contributions(batches[i].id) IN
        /\ Len(cs) >= 2
        /\ cs[1] # cs[2]
        /\ NatSum(cs)[1] >= Base

\* C2: a batch that is closed stays closed in every later state, with the
\* same aggregate and the same fingerprint, and no payment is reported for it.
C2_ClosedBatchImmutable ==
    [][\A i \in DOMAIN batches :
          batches[i].closed =>
            /\ i \in DOMAIN batches'
            /\ batches'[i].closed
            /\ batches'[i].totalEncryptedAmount = batches[i].totalEncryptedAmount
            /\ hashCiphertexts(<<FHE_toBytes32(batches'[i].totalEncryptedAmount)>>)
                 = hashCiphertexts(<<FHE_toBytes32(batches[i].totalEncryptedAmount)>>)
            /\ \A k \in DOMAIN paymentBatchId' \ DOMAIN paymentBatchId :
                  paymentBatchId'[k] # batches[i].id]_vars

\* a closed batch after which the provider opened the next batch and a
\* decryption of the closed one was requested
C2_Witness ==
    /\ Len(batches) >= 2
    /\ batches[1].closed
    /\ counterRequest > 0

\* C3: for a requestId whose context is processed, every callback (any
\* caller, any payload, any proof) fails with ReplayAttempt, and exactly one
\* finalization was ever emitted for it.
C3_ReplayRejected ==
    \A r \in RequestIds :
        decryptionContexts[r].processed =>
            /\ Len(completed[r]) = 1
            /\ \A c \in CallbackCallers, p \in AllPayloads, s \in AllProofs :
                  myCallbackErr(c, r, p, s) = "ReplayAttempt"

\* a processed context for which the proof that finalized it is still at hand
C3_Witness ==
    \E r \in RequestIds :
        /\ decryptionContexts[r].processed
        /\ KmsSign(requestedCts[r]) \in AllProofs

\* C4: when the callback reaches the comparison of the fingerprints (the
\* context is unprocessed and names an existing closed batch) and the
\* recomputed fingerprint differs from the stored one, it fails with
\* StateMismatch whatever the payload and the proof, and the context stays
\* unprocessed.
C4_StateMismatch ==
    \A r \in RequestIds :
        LET ctx == decryptionContexts[r] IN
        (/\ ~ctx.processed
         /\ ctx.batchId < Len(batches)
         /\ batches[ctx.batchId + 1].closed
         /\ hashCiphertexts(<<FHE_toBytes32(batches[ctx.batchId + 1].totalEncryptedAmount)>>)
              # ctx.stateHash)
        => \A c \in CallbackCallers, p \in AllPayloads, s \in AllProofs :
              myCallbackErr(c, r, p, s) = "StateMismatch"

\* a context whose stored fingerprint differs from the one of the closed
\* batch it names, while proofs issued by the KMS exist
C4_Witness ==
    \E r \in RequestIds :
        LET ctx == decryptionContexts[r] IN
        /\ ~ctx.processed
        /\ ctx.batchId < Len(batches)
        /\ batches[ctx.batchId + 1].closed
        /\ hashCiphertexts(<<FHE_toBytes32(batches[ctx.batchId + 1].totalEncryptedAmount)>>)
              # ctx.stateHash
        /\ AllProofs # {Forged}

\* the time and the cooldown in force of the latest ledger entry of p
HasPayment(p) == \E k \in DOMAIN payments : payments[k].provider = p
LastPaymentIndex(p) ==
    CHOOSE k \in DOMAIN payments :
        /\ payments[k].provider = p
        /\ \A j \in DOMAIN payments : payments[j].provider = p => j <= k

\* C5 as stated: with t1 the time of the previous successful submitPayment
\* of p and the cooldown as it was then, a submitPayment of p is rejected
\* with CooldownActive when now - t1 < cooldownSeconds and succeeds otherwise.
C5_CooldownSincePayment ==
    \A p \in Addresses :
        (/\ providers[p] /\ ~paused /\ LatestOpen /\ HasPayment(p)
         /\ paymentCooldown[LastPaymentIndex(p)] = cooldownSeconds)
        => LET t1 == payments[LastPaymentIndex(p)].submissionTimestamp IN
           /\ now - t1 < cooldownSeconds => submitPaymentErr(p) = "CooldownActive"
           /\ now - t1 >= cooldownSeconds => submitPaymentErr(p) = "ok"

\* C5 amended: with t1 the time of the previous successful submitPayment or
\* openBatch of p (both write lastSubmissionTime[p]), accepted under the
\* cooldown still in force (so t1 >= cooldownSeconds), a submitPayment of p
\* is rejected with CooldownActive when now - t1 < cooldownSeconds and
\* succeeds when now - t1 >= cooldownSeconds.
C5_CooldownSinceLastAction ==
    \A p \in Addresses :
        (/\ providers[p] /\ ~paused /\ LatestOpen
         /\ lastSubmissionTime[p] > 0
         /\ lastSubmissionTime[p] >= cooldownSeconds)
        => LET t1 == lastSubmissionTime[p] IN
           /\ now - t1 < cooldownSeconds => submitPaymentErr(p) = "CooldownActive"
           /\ now - t1 >= cooldownSeconds => submitPaymentErr(p) = "ok"

\* two providers with ledger entries, one inside its cooldown and rejected,
\* one exactly cooldownSeconds after its previous submission and accepted
C5_Witness ==
    \E p, q \in Addresses :
        /\ providers[p] /\ providers[q] /\ ~paused /\ LatestOpen
        /\ HasPayment(p) /\ HasPayment(q)
        /\ lastSubmissionTime[p] >= cooldownSeconds
        /\ now - lastSubmissionTime[p] < cooldownSeconds
        /\ submitPaymentErr(p) = "CooldownActive"
        /\ lastSubmissionTime[q] >= cooldownSeconds
        /\ now - lastSubmissionTime[q] = cooldownSeconds
        /\ submitPaymentErr(q) = "ok"

\* the requestIds no requestBatchTotalDecryption ever stored a context for
UnknownRequests == {r \in RequestIds : r >= counterRequest}

C7_OnlyOracleFinalizes ==
    \A c \in CallbackCallers \ {Oracle} :
        \A r \in RequestIds, p \in AllPayloads, s \in AllProofs :
            myCallbackErr(c, r, p, s) # "ok"

\* C8: at most one batch is open.
C8_AtMostOneOpenBatch ==
    Cardinality({i \in DOMAIN batches : ~batches[i].closed}) <= 1

\* the storage the four gated functions write
GatedStorage == <<batches, payments, lastSubmissionTime, lastDecryptionRequestTime,
                  counterRequest, requestedCts, paymentBatchId>>

\* C9: while paused, openBatch, submitPayment and closeBatch by a provider
\* and requestBatchTotalDecryption by anyone fail with Paused and nothing
\* they write changes; the owner's functions still succeed, and setPaused
\* (false) by the owner leads to an unpaused state.
C9_PausedBlocksGated ==
    /\ [](paused =>
            /\ \A c \in Addresses :
                  providers[c] =>
                    /\ openBatchErr(c) = "Paused"
                    /\ submitPaymentErr(c) = "Paused"
                    /\ closeBatchErr(c) = "Paused"
            /\ \A c \in Addresses, b \in 0..MaxBatches :
                  requestBatchTotalDecryptionErr(c, b) = "Paused"
            /\ transferOwnershipErr(owner) = "ok"
            /\ addProviderErr(owner) = "ok"
            /\ removeProviderErr(owner) = "ok"
            /\ setCooldownSecondsErr(owner) = "ok"
            /\ setPausedErr(owner) = "ok"
            /\ ENABLED (setPaused(owner, FALSE) /\ ~paused'))
    /\ [][paused => UNCHANGED GatedStorage]_vars

\* paused while a provider is out of its cooldown and the latest batch is
\* open, so that the pause alone stops the provider, and while some caller
\* is out of its decryption cooldown
C9_Witness ==
    /\ paused
    /\ \E c \in Addresses :
          /\ providers[c]
          /\ LatestOpen
          /\ cooldownCheck(lastSubmissionTime[c]) = "ok"
    /\ \E c \in Addresses : cooldownCheck(lastDecryptionRequestTime[c]) = "ok"

\* C10: while paused no decryption context becomes processed.
C10_PausedBlocksCallback ==
    [][paused =>
         \A r \in RequestIds :
            decryptionContexts'[r].processed = decryptionContexts[r].processed]_vars

\* C11: a call that fails changes nothing.  Every change of the storage is
\* the complete effect of a call that succeeds: lastSubmissionTime[c] is
\* written only together with the batch or the ledger entry of a successful
\* openBatch or submitPayment of c, lastDecryptionRequestTime[c] only
\* together with the context of a successful requestBatchTotalDecryption of
\* c, and batches, ledger and contexts change only in a state where a call
\* that writes them succeeds.
C11_FailedCallsChangeNothing ==
    [][/\ \A c \in Addresses :
            lastSubmissionTime'[c] # lastSubmissionTime[c] =>
              /\ lastSubmissionTime'[c] = now
              /\ \/ /\ openBatchErr(c) = "ok"
                    /\ Len(batches') = Len(batches) + 1
                    /\ payments' = payments
                 \/ /\ submitPaymentErr(c) = "ok"
                    /\ Len(payments') = Len(payments) + 1
                    /\ payments'[Len(payments')].provider = c
       /\ \A c \in Addresses :
            lastDecryptionRequestTime'[c] # lastDecryptionRequestTime[c] =>
              /\ lastDecryptionRequestTime'[c] = now
              /\ counterRequest' = counterRequest + 1
              /\ requestBatchTotalDecryptionErr(c,
                    decryptionContexts'[counterRequest].batchId) = "ok"
       /\ batches' # batches =>
            \E c \in Addresses :
                \/ openBatchErr(c) = "ok"
                \/ submitPaymentErr(c) = "ok"
                \/ closeBatchErr(c) = "ok"
       /\ payments' # payments =>
            \E c \in Addresses : submitPaymentErr(c) = "ok"
       /\ decryptionContexts' # decryptionContexts =>
            \/ \E c \in Addresses, b \in 0..MaxBatches :
                  requestBatchTotalDecryptionErr(c, b) = "ok"
            \/ \E c \in CallbackCallers, r \in RequestIds,
                  p \in AllPayloads, s \in AllProofs :
                  myCallbackErr(c, r, p, s) = "ok"]_vars

\* a provider past its cooldown whose submitPayment fails at the batch check,
\* after the write of lastSubmissionTime, and a caller past its cooldown
\* whose request fails at the batch check, after the write of
\* lastDecryptionRequestTime; both time stamps differ from the clock
C11_Witness ==
    \E c \in Addresses :
        /\ submitPaymentErr(c) = "BatchClosedOrNonexistent"
        /\ lastSubmissionTime[c] # now
        /\ \E b \in 0..MaxBatches :
              requestBatchTotalDecryptionErr(c, b) = "InvalidBatch"
        /\ lastDecryptionRequestTime[c] # now

\* C12: there is one owner, an address; transferOwnership, addProvider,
\* removeProvider, setPaused and setCooldownSeconds succeed for the caller
\* that is the owner and fail with NotOwner for every other caller.
C12_OwnerOnly ==
    /\ owner \in Addresses
    /\ \A c \in Addresses :
          LET expected == IF c = owner THEN "ok" ELSE "NotOwner" IN
          /\ transferOwnershipErr(c) = expected
          /\ addProviderErr(c) = expected
          /\ removeProviderErr(c) = expected
          /\ setPausedErr(c) = expected
          /\ setCooldownSecondsErr(c) = expected

\* the ownership was transferred: the deployer is a previous owner
C12_Witness ==
    /\ owner # Deployer
    /\ transferOwnershipErr(Deployer) = "NotOwner"
    /\ setPausedErr(owner) = "ok"

\* C13: openBatch, submitPayment and closeBatch fail with NotProvider for
\* every caller whose provider flag is false, the owner included, and every
\* new batch, new ledger entry, closing of a batch and write of
\* lastSubmissionTime happens in a state where a provider exists; the
\* provider of a new ledger entry and the caller whose lastSubmissionTime is
\* written has its flag set.
C13_ProviderOnly ==
    /\ [](\A c \in Addresses :
            ~providers[c] =>
                /\ openBatchErr(c) = "NotProvider"
                /\ submitPaymentErr(c) = "NotProvider"
                /\ closeBatchErr(c) = "NotProvider")
    /\ [][/\ (batches' # batches \/ payments' # payments)
               => \E c \in Addresses : providers[c]
          /\ \A c \in Addresses :
               lastSubmissionTime'[c] # lastSubmissionTime[c] => providers[c]
          /\ Len(payments') > Len(payments)
               => providers[payments'[Len(payments')].provider]]_vars

\* a caller that acted as a provider and was removed, now past its cooldown
\* with the latest batch open and the system not paused: the role check
\* alone stops it; the owner is no provider either
C13_Witness ==
    \E c \in Addresses :
        /\ ~providers[c]
        /\ lastSubmissionTime[c] > 0
        /\ ~paused
        /\ LatestOpen
        /\ cooldownCheck(lastSubmissionTime[c]) = "ok"
        /\ ~providers[owner]

\* the batchIds a request is made for, and those among them that name no
\* existing closed batch
BatchIds == 0..MaxBatches
NotClosedBatch(b) == b >= Len(batches) \/ ~batches[b + 1].closed

\* C14 as stated: a request for a batchId that is no existing closed batch
\* fails with InvalidBatch, whoever calls and whenever.
C14_AlwaysInvalidBatch ==
    \A c \in Addresses, b \in BatchIds :
        NotClosedBatch(b) => requestBatchTotalDecryptionErr(c, b) = "InvalidBatch"

\* C14 amended: a request for a batchId that is no existing closed batch
\* never succeeds; it fails with Paused when the system is paused, else with
\* CooldownActive (or the overflow panic of the sum) when the caller's
\* decryption cooldown has not elapsed, else with InvalidBatch; and a step
\* that stores a context stores it for an existing closed batch.
C14_InvalidBatchAfterGates ==
    /\ [](\A c \in Addresses, b \in BatchIds :
            NotClosedBatch(b) =>
              LET err == requestBatchTotalDecryptionErr(c, b)
                  last == lastDecryptionRequestTime[c]
              IN
              /\ err # "ok"
              /\ paused => err = "Paused"
              /\ (~paused /\ last > MaxUint256 - cooldownSeconds) => err = "Panic"
              /\ (~paused /\ last <= MaxUint256 - cooldownSeconds
                          /\ now - last < cooldownSeconds)
                    => err = "CooldownActive"
              /\ (~paused /\ last <= MaxUint256 - cooldownSeconds
                          /\ now - last >= cooldownSeconds)
                    => err = "InvalidBatch")
    /\ [][counterRequest' # counterRequest =>
            ~NotClosedBatch(decryptionContexts'[counterRequest].batchId)]_vars

\* the system is not paused; an open batch and a closed one exist; one
\* caller is past its decryption cooldown and one is inside it after a
\* request of its own
C14_Witness ==
    /\ ~paused
    /\ \E b \in DOMAIN batches : ~batches[b].closed
    /\ \E b \in DOMAIN batches : batches[b].closed
    /\ \E c \in Addresses : cooldownCheck(lastDecryptionRequestTime[c]) = "ok"
    /\ \E c \in Addresses :
          /\ lastDecryptionRequestTime[c] > 0
          /\ cooldownCheck(lastDecryptionRequestTime[c]) = "CooldownActive"

\* C15: for a provider past its submission cooldown, with the system not
\* paused, submitPayment fails with BatchClosedOrNonexistent when there is
\* no batch or the latest batch is closed; and while no batch is open at the
\* end of the list no step adds a ledger entry or changes the aggregate of a
\* batch.
C15_NoOpenBatch ==
    /\ [](\A c \in Addresses :
            (/\ providers[c]
             /\ ~paused
             /\ lastSubmissionTime[c] <= MaxUint256 - cooldownSeconds
             /\ now - lastSubmissionTime[c] >= cooldownSeconds
             /\ ~LatestOpen)
            => submitPaymentErr(c) = "BatchClosedOrNonexistent")
    /\ [][~LatestOpen =>
            /\ payments' = payments
            /\ \A i \in DOMAIN batches :
                  batches'[i].totalEncryptedAmount = batches[i].totalEncryptedAmount]_vars

\* a provider past its cooldown, not paused, with the latest batch closed
\* after it took a payment
C15_Witness ==
    \E c \in Addresses :
        /\ providers[c]
        /\ ~paused
        /\ cooldownCheck(lastSubmissionTime[c]) = "ok"
        /\ Len(batches) > 0
        /\ batches[Len(batches)].closed
        /\ Len(payments) > 0

\* the batches whose closed flag differs between the two states of a step
Flipped == {i \in DOMAIN batches : batches'[i].closed # batches[i].closed}

\* C16: closeBatch succeeds only when the latest batch exists and is open; a
\* step that changes a closed flag changes the one of the latest batch alone,
\* from open to closed, and nothing else of any batch, so no batch is ever
\* closed twice or reopened; and with the latest batch closed, closeBatch by
\* a provider while the system is not paused fails with
\* BatchClosedOrNonexistent and succeeds for nobody.
C16_CloseBatchOnce ==
    /\ [](\A c \in Addresses :
            /\ closeBatchErr(c) = "ok" => LatestOpen
            /\ (providers[c] /\ ~paused /\ LatestOpen) => closeBatchErr(c) = "ok"
            /\ (providers[c] /\ ~paused /\ ~LatestOpen)
                  => closeBatchErr(c) = "BatchClosedOrNonexistent")
    /\ [][/\ \A i \in DOMAIN batches :
               /\ i \in DOMAIN batches'
               /\ batches[i].closed => batches'[i].closed
          /\ Flipped # {} =>
               /\ LatestOpen
               /\ Flipped = {Len(batches)}
               /\ Len(batches') = Len(batches)
               /\ \A i \in DOMAIN batches :
                     /\ batches'[i].id = batches[i].id
                     /\ batches'[i].totalEncryptedAmount
                          = batches[i].totalEncryptedAmount
               /\ \E c \in Addresses : closeBatchErr(c) = "ok"]_vars

\* the latest batch was closed while an earlier one is open, and a provider
\* is there to call closeBatch once more with the system not paused
C16_Witness ==
    /\ Len(batches) >= 2
    /\ batches[Len(batches)].closed
    /\ ~batches[1].closed
    /\ ~paused
    /\ \E c \in Addresses : providers[c]

\* the requestIds a request has stored a context for
CreatedRequests == {r \in RequestIds : r < counterRequest}

\* C17: the batchId and the stateHash of a created context never change; its
\* processed flag never goes back to false; a step that sets it is a
\* successful myCallback for that requestId (it emits one DecryptionCompleted
\* with that requestId and changes no other context); the context of a new
\* request is unprocessed, and no step other than that callback writes a
\* created context, so an unanswered one stays unprocessed.
C17_ContextLifecycle ==
    [][/\ \A r \in CreatedRequests :
            /\ decryptionContexts'[r].batchId = decryptionContexts[r].batchId
            /\ decryptionContexts'[r].stateHash = decryptionContexts[r].stateHash
            /\ decryptionContexts[r].processed => decryptionContexts'[r].processed
       /\ \A r \in RequestIds :
            decryptionContexts'[r].processed # decryptionContexts[r].processed =>
              /\ r \in CreatedRequests
              /\ \E c \in CallbackCallers, p \in AllPayloads, s \in AllProofs :
                    myCallbackErr(c, r, p, s) = "ok"
              /\ Len(completed'[r]) = Len(completed[r]) + 1
              /\ completed'[r][Len(completed'[r])].requestId = r
              /\ \A q \in RequestIds \ {r} :
                    decryptionContexts'[q] = decryptionContexts[q]
              /\ counterRequest' = counterRequest
       /\ \A r \in RequestIds :
            Len(completed'[r]) # Len(completed[r]) =>
                ~decryptionContexts[r].processed /\ decryptionContexts'[r].processed
       /\ counterRequest' # counterRequest =>
            /\ ~decryptionContexts'[counterRequest].processed
            /\ \A r \in CreatedRequests :
                  decryptionContexts'[r] = decryptionContexts[r]]_vars

\* two created contexts, the earlier one processed and the later one still
\* unanswered
C17_Witness ==
    /\ counterRequest >= 2
    /\ decryptionContexts[0].processed
    /\ ~decryptionContexts[1].processed

\* the created contexts no callback has finalized
PendingRequests == {r \in CreatedRequests : ~decryptionContexts[r].processed}

\* C18: for a pending context every callback (any caller) whose proof is not
\* the KMS signature over the handles saved for the requestId and the
\* payload presented fails with InvalidProof, and in the same state, which a
\* failed call leaves as it is, the callback with the payload and the proof
\* the KMS issued for the request succeeds; a step that finalizes a context
\* passes the signature check.
C18_InvalidProof ==
    /\ [](\A r \in PendingRequests :
            /\ \A c \in CallbackCallers, p \in AllPayloads, s \in AllProofs :
                  myCallbackErr(c, r, p, s) =
                    IF s = KmsSign(requestedCts[r]) /\ p = s[2]
                    THEN "ok" ELSE "InvalidProof"
            /\ \A c \in CallbackCallers :
                  /\ myCallbackErr(c, r, KmsSign(requestedCts[r])[2], Forged)
                        = "InvalidProof"
                  /\ myCallbackErr(c, r, KmsSign(requestedCts[r])[2],
                                   KmsSign(requestedCts[r])) = "ok")
    /\ [][\A r \in RequestIds :
            Len(completed'[r]) > Len(completed[r]) =>
               abi_decode(KmsSign(requestedCts[r])[2])
                  = completed'[r][Len(completed'[r])].totalAmount]_vars

\* two pending contexts for batches with different aggregates: the proof
\* issued for one does not verify for the other
C18_Witness ==
    \E r, q \in PendingRequests :
        /\ KmsSign(requestedCts[r]) # KmsSign(requestedCts[q])
        /\ KmsSign(requestedCts[q]) \in AllProofs
        /\ KmsSign(requestedCts[q])[2] \in AllPayloads

\* C19 as stated: the totalAmount of every DecryptionCompleted is the sum (as
\* a number) of the contributions accepted into the batch it names.
C19_TotalIsExactSum ==
    \A r \in RequestIds :
        \A k \in DOMAIN completed[r] :
            completed[r][k].totalAmount
                = abi_encode(NatSum(Contributions(completed[r][k].batchId)))

\* C19 amended: the totalAmount of every DecryptionCompleted is the sum
\* modulo 2^32 of the contributions accepted into the batch it names, which
\* is the batch of the context, closed, and the plaintext behind its
\* aggregate.
C19_TotalIsSumMod32 ==
    \A r \in RequestIds :
        \A k \in DOMAIN completed[r] :
            LET e == completed[r][k] IN
            /\ e.requestId = r
            /\ e.batchId = decryptionContexts[r].batchId
            /\ e.batchId < Len(batches)
            /\ batches[e.batchId + 1].closed
            /\ e.totalAmount = abi_encode(SumMod32(Contributions(e.batchId)))
            /\ e.totalAmount
                 = abi_encode(batches[e.batchId + 1].totalEncryptedAmount.pt)

\* a finalization for a batch that took two different contributions whose
\* sum wrapped
C19_Witness ==
    \E r \in RequestIds :
        /\ completed[r] # << >>
        /\ LET cs == Contributions(completed[r][1].batchId) IN
           /\ Len(cs) >= 2
           /\ cs[1] # cs[2]
           /\ NatSum(cs)[1] >= Base

\* C20: requestBatchTotalDecryption succeeds for every caller, provider or
\* not, when the system is not paused, the caller's decryption cooldown has
\* elapsed and batchId names an existing closed batch; a step that issues a
\* request stores under the requestId the library returned the context
\* {batchId, fingerprint of the batch's aggregate, processed = false}, hands
\* the aggregate to the library, stamps the caller's decryption clock, and
\* changes no batch, no ledger entry and no other context.
C20_RequestStoresContext ==
    /\ [](\A c \in Addresses, b \in BatchIds :
            (/\ ~paused
             /\ lastDecryptionRequestTime[c] <= MaxUint256 - cooldownSeconds
             /\ now - lastDecryptionRequestTime[c] >= cooldownSeconds
             /\ ~NotClosedBatch(b))
            => requestBatchTotalDecryptionErr(c, b) = "ok")
    /\ [][counterRequest' # counterRequest =>
            LET r == counterRequest
                ctx == decryptionContexts'[r]
            IN
            /\ counterRequest' = r + 1
            /\ ~NotClosedBatch(ctx.batchId)
            /\ ctx.stateHash = hashCiphertexts(
                  <<FHE_toBytes32(batches[ctx.batchId + 1].totalEncryptedAmount)>>)
            /\ ~ctx.processed
            /\ requestedCts'[r] = <<batches[ctx.batchId + 1].totalEncryptedAmount>>
            /\ \E c \in Addresses :
                  /\ requestBatchTotalDecryptionErr(c, ctx.batchId) = "ok"
                  /\ lastDecryptionRequestTime' =
                        [lastDecryptionRequestTime EXCEPT ![c] = now]
            /\ batches' = batches
            /\ payments' = payments
            /\ \A q \in RequestIds \ {r} :
                  /\ decryptionContexts'[q] = decryptionContexts[q]
                  /\ requestedCts'[q] = requestedCts[q]
            /\ completed' = completed]_vars

\* a context is stored already, and a caller that is no provider and never
\* was the provider of a batch action is in a position to request the
\* decryption of a closed batch
C20_Witness ==
    /\ counterRequest >= 1
    /\ \E c \in Addresses, b \in BatchIds :
          /\ ~providers[c]
          /\ lastSubmissionTime[c] = 0
          /\ requestBatchTotalDecryptionErr(c, b) = "ok"
    /\ \E c \in Addresses :
          ~providers[c] /\ lastDecryptionRequestTime[c] > 0

\* C21: a step that writes lastSubmissionTime[p] writes neither another
\* entry of that map nor lastDecryptionRequestTime, and the other way round;
\* and with cooldownSeconds, the pause flag and q's role as they were, a
\* request by q comes to fail with CooldownActive only in a step that writes
\* lastDecryptionRequestTime[q] (a request of q), and an openBatch or
\* submitPayment by q only in a step that writes lastSubmissionTime[q].
C21_IndependentClocks ==
    [][/\ \A p \in Addresses :
            lastSubmissionTime'[p] # lastSubmissionTime[p] =>
              /\ lastDecryptionRequestTime' = lastDecryptionRequestTime
              /\ \A q \in Addresses \ {p} :
                    lastSubmissionTime'[q] = lastSubmissionTime[q]
       /\ \A p \in Addresses :
            lastDecryptionRequestTime'[p] # lastDecryptionRequestTime[p] =>
              /\ lastSubmissionTime' = lastSubmissionTime
              /\ \A q \in Addresses \ {p} :
                    lastDecryptionRequestTime'[q] = lastDecryptionRequestTime[q]
       /\ \A q \in Addresses :
            (/\ cooldownSeconds' = cooldownSeconds
             /\ paused' = paused
             /\ providers'[q] = providers[q])
            =>
            /\ \A b \in BatchIds :
                  (/\ requestBatchTotalDecryptionErr(q, b) # "CooldownActive"
                   /\ requestBatchTotalDecryptionErr(q, b)' = "CooldownActive")
                  => lastDecryptionRequestTime'[q] # lastDecryptionRequestTime[q]
            /\ (/\ openBatchErr(q) # "CooldownActive"
                /\ openBatchErr(q)' = "CooldownActive")
                  => lastSubmissionTime'[q] # lastSubmissionTime[q]
            /\ (/\ submitPaymentErr(q) # "CooldownActive"
                /\ submitPaymentErr(q)' = "CooldownActive")
                  => lastSubmissionTime'[q] # lastSubmissionTime[q]]_vars

\* p has just submitted and its request is admitted; q has just requested
\* and its openBatch is admitted
C21_Witness ==
    \E p, q \in Addresses :
        /\ p # q
        /\ lastSubmissionTime[p] = now
        /\ HasPayment(p)
        /\ \E b \in BatchIds : requestBatchTotalDecryptionErr(p, b) = "ok"
        /\ lastDecryptionRequestTime[q] = now
        /\ counterRequest >= 1
        /\ openBatchErr(q) = "ok"

\* the rate limiter admits a caller whose last action was at time last: all
\* checks before the cooldown check pass and the cooldown check passes
Admits(err) == err \notin {"CooldownActive", "Panic"}
Elapsed(last) ==
    /\ last <= MaxUint256 - cooldownSeconds
    /\ now - last >= cooldownSeconds

\* C22: a step that changes cooldownSeconds changes nothing else of the
\* storage; and in every state, whatever cooldownSeconds was before, a
\* provider's openBatch and submitPayment with the system not paused pass
\* the rate limiter exactly when now >= lastSubmissionTime[p] +
\* cooldownSeconds, and a request with the system not paused exactly when
\* now >= lastDecryptionRequestTime[p] + cooldownSeconds (a sum beyond the
\* uint256 range is never reached by now).
C22_CooldownChange ==
    /\ [](\A p \in Addresses :
            /\ (providers[p] /\ ~paused) =>
                  /\ Admits(openBatchErr(p)) <=> Elapsed(lastSubmissionTime[p])
                  /\ Admits(submitPaymentErr(p)) <=> Elapsed(lastSubmissionTime[p])
                  /\ openBatchErr(p) = "ok" <=> Elapsed(lastSubmissionTime[p])
            /\ ~paused =>
                  \A b \in BatchIds :
                     Admits(requestBatchTotalDecryptionErr(p, b))
                        <=> Elapsed(lastDecryptionRequestTime[p]))
    /\ [][cooldownSeconds' # cooldownSeconds =>
            /\ setCooldownSecondsErr(owner) = "ok"
            /\ UNCHANGED <<owner, providers, paused, lastSubmissionTime,
                           lastDecryptionRequestTime, payments, batches,
                           decryptionContexts, counterRequest, requestedCts,
                           now, events>>]_vars

\* the cooldown was raised after a provider's action: under the value of
\* the constructor the provider would be admitted now, under the current
\* one it is not
C22_Witness ==
    \E p \in Addresses :
        /\ providers[p] /\ ~paused
        /\ cooldownSeconds = 2 * DefaultCooldown
        /\ lastSubmissionTime[p] > 0
        /\ now - lastSubmissionTime[p] >= DefaultCooldown
        /\ openBatchErr(p) = "CooldownActive"

\* C23: in a state where a is a provider, addProvider(a) by the owner leaves
\* every variable as it is, and so does removeProvider(a) where a is no
\* provider: the second of two equal calls changes nothing.  Where the call
\* does change the state, it sets (clears) the flag of a and nothing else;
\* a step that changes the provider flags changes the flag of one address.
C23_ProviderIdempotent ==
    /\ [](\A a \in Addresses :
            /\ providers[a] => ~ENABLED <<addProvider(owner, a)>>_vars
            /\ ~providers[a] => ~ENABLED <<removeProvider(owner, a)>>_vars
            /\ ~providers[a] =>
                  ENABLED (/\ addProvider(owner, a)
                           /\ providers' = [providers EXCEPT ![a] = TRUE])
            /\ providers[a] =>
                  ENABLED (/\ removeProvider(owner, a)
                           /\ providers' = [providers EXCEPT ![a] = FALSE]))
    /\ [][providers' # providers =>
            /\ Cardinality({a \in Addresses : providers'[a] # providers[a]}) = 1
            /\ UNCHANGED <<owner, paused, cooldownSeconds, lastSubmissionTime,
                           lastDecryptionRequestTime, payments, batches,
                           decryptionContexts, counterRequest, requestedCts,
                           now, events>>]_vars

\* one address is a provider while another one, which acted as a provider,
\* was removed
C23_Witness ==
    \E a, b \in Addresses :
        /\ a # b
        /\ providers[a]
        /\ ~providers[b]
        /\ lastSubmissionTime[b] > 0

\* C24: the batch at position i (counted from 0) has id i; the number of
\* batches never decreases and grows by one at a time; a new batch has the
\* number of batches before the call as its id, the encrypted zero as its
\* aggregate and closed = false, and the batches before it are unchanged;
\* and openBatch succeeds for a provider past its cooldown with the system
\* not paused whether or not the latest batch is open.
C24_OpenBatchAppends ==
    /\ [](/\ \A i \in DOMAIN batches : batches[i].id = i - 1
          /\ \A c \in Addresses :
                (providers[c] /\ ~paused /\ Elapsed(lastSubmissionTime[c]))
                    => openBatchErr(c) = "ok")
    /\ [][/\ Len(batches') >= Len(batches)
          /\ Len(batches') # Len(batches) =>
               /\ Len(batches') = Len(batches) + 1
               /\ batches'[Len(batches')] =
                     [id |-> Len(batches),
                      totalEncryptedAmount |-> [h |-> <<Zero32>>, pt |-> Zero32],
                      closed |-> FALSE]
               /\ \A i \in DOMAIN batches : batches'[i] = batches[i]
               /\ \E c \in Addresses :
                     /\ openBatchErr(c) = "ok"
                     /\ lastSubmissionTime'[c] = now]_vars

\* two batches opened one after the other, the first one still open with a
\* payment in it
C24_Witness ==
    /\ Len(batches) >= 2
    /\ ~batches[1].closed
    /\ ~batches[2].closed
    /\ batches[1].totalEncryptedAmount # FHE_asEuint32(Zero32)

\* the batches whose aggregate differs between the two states of a step
AggregateChanged ==
    {i \in DOMAIN batches :
        batches'[i].totalEncryptedAmount # batches[i].totalEncryptedAmount}

\* C25: no step shortens the ledger or changes an entry of it; a step that
\* changes it appends one entry {caller, contribution, current time} for a
\* caller whose submitPayment succeeds, and adds that contribution to the
\* aggregate of the latest batch; and a step that changes an aggregate is
\* such a step and changes the aggregate of the latest batch alone.
C25_LedgerAppendOnly ==
    [][/\ Len(payments') >= Len(payments)
       /\ \A k \in DOMAIN payments : payments'[k] = payments[k]
       /\ payments' # payments =>
            /\ Len(payments') = Len(payments) + 1
            /\ LET e == payments'[Len(payments')] IN
               /\ submitPaymentErr(e.provider) = "ok"
               /\ e.submissionTimestamp = now
               /\ lastSubmissionTime'[e.provider] = now
               /\ \E v \in Amounts : e.encryptedAmount = [h |-> <<v>>, pt |-> v]
               /\ AggregateChanged = {Len(batches)}
               /\ batches'[Len(batches)].totalEncryptedAmount =
                     [h |-> batches[Len(batches)].totalEncryptedAmount.h
                              \o e.encryptedAmount.h,
                      pt |-> Add32(batches[Len(batches)].totalEncryptedAmount.pt,
                                   e.encryptedAmount.pt)]
       /\ AggregateChanged # {} => Len(payments') = Len(payments) + 1]_vars

\* a ledger with entries of two providers, the batch that took them closed
C25_Witness ==
    /\ Len(payments) >= 2
    /\ payments[1].provider # payments[2].provider
    /\ Len(batches) >= 1
    /\ batches[1].closed
    /\ Len(Contributions(0)) >= 2

\* C26: a step in which a callback succeeds (it emits DecryptionCompleted
\* for a requestId r) sets the processed flag of the context of r and
\* changes nothing else: not the other fields of that context, no other
\* context, no batch, no ledger entry, neither time stamp map, not the
\* owner, the providers, the pause flag, cooldownSeconds or the request
\* counter of the library.
C26_CallbackFrame ==
    [][\A r \in RequestIds :
          completed'[r] # completed[r] =>
            /\ decryptionContexts' =
                  [decryptionContexts EXCEPT ![r] =
                      [batchId |-> decryptionContexts[r].batchId,
                       stateHash |-> decryptionContexts[r].stateHash,
                       processed |-> TRUE]]
            /\ ~decryptionContexts[r].processed
            /\ \A q \in RequestIds \ {r} : completed'[q] = completed[q]
            /\ UNCHANGED <<owner, providers, paused, cooldownSeconds,
                           lastSubmissionTime, lastDecryptionRequestTime,
                           payments, batches, counterRequest, requestedCts,
                           now, paymentBatchId, paymentCooldown>>]_vars

\* a finalization for a batch other than batch 0 while a second context
\* exists
C26_Witness ==
    \E r \in RequestIds :
        /\ completed[r] # << >>
        /\ decryptionContexts[r].batchId > 0
        /\ counterRequest >= 2

\* the fingerprint of the current aggregate of the batch with id b
CurrentHash(b) ==
    hashCiphertexts(<<FHE_toBytes32(batches[b + 1].totalEncryptedAmount)>>)

\* C27: every context a request created names an existing closed batch and
\* holds the fingerprint of that batch's current aggregate; a callback for
\* its requestId fails, if it fails, with ReplayAttempt or InvalidProof; and
\* two created contexts that name the same batch hold the same fingerprint.
C27_ContextsMatchBatches ==
    /\ \A r \in CreatedRequests :
          LET ctx == decryptionContexts[r] IN
          /\ ctx.batchId < Len(batches)
          /\ batches[ctx.batchId + 1].closed
          /\ ctx.stateHash = CurrentHash(ctx.batchId)
          /\ requestedCts[r] = <<batches[ctx.batchId + 1].totalEncryptedAmount>>
          /\ \A c \in CallbackCallers, p \in AllPayloads, s \in AllProofs :
                myCallbackErr(c, r, p, s) \in {"ok", "ReplayAttempt", "InvalidProof"}
    /\ \A r, q \in CreatedRequests :
          decryptionContexts[r].batchId = decryptionContexts[q].batchId
              => decryptionContexts[r].stateHash = decryptionContexts[q].stateHash

\* two contexts that name the same batch, which took a payment, next to a
\* later batch that is open
C27_Witness ==
    /\ counterRequest >= 2
    /\ decryptionContexts[0].batchId = decryptionContexts[1].batchId
    /\ Len(Contributions(decryptionContexts[0].batchId)) >= 1
    /\ LatestOpen

\* the positions of the batches that are open although a later batch exists
Orphaned == {i \in DOMAIN batches : i < Len(batches) /\ ~batches[i].closed}

\* C28 as stated: every request for a batch that is open while a later
\* batch exists fails with InvalidBatch.
C28_OrphanedAlwaysInvalidBatch ==
    \A i \in Orphaned :
        \A c \in Addresses :
            requestBatchTotalDecryptionErr(c, i - 1) = "InvalidBatch"

\* C28 amended: a batch that is open while a later batch exists is never closed or
\* changed and takes no payment; a request for it succeeds for nobody, and
\* when the system is not paused and the caller's decryption cooldown has
\* elapsed it fails with InvalidBatch; no context names it and no
\* finalization reports its total.
C28_OrphanedBatchStaysOpen ==
    /\ [](\A i \in Orphaned :
            /\ \A c \in Addresses :
                  /\ requestBatchTotalDecryptionErr(c, i - 1) # "ok"
                  /\ (~paused /\ Elapsed(lastDecryptionRequestTime[c]))
                        => requestBatchTotalDecryptionErr(c, i - 1) = "InvalidBatch"
            /\ \A r \in CreatedRequests : decryptionContexts[r].batchId # i - 1
            /\ \A r \in RequestIds :
                  \A k \in DOMAIN completed[r] : completed[r][k].batchId # i - 1)
    /\ [][\A i \in Orphaned :
            /\ i \in DOMAIN batches'
            /\ i < Len(batches')
            /\ batches'[i] = batches[i]
            /\ \A k \in DOMAIN paymentBatchId' \ DOMAIN paymentBatchId :
                  paymentBatchId'[k] # batches[i].id]_vars

\* batch 0 is open although batch 1 exists; batch 1 was closed and a
\* decryption of it requested, and a provider is there, the system not paused
C28_Witness ==
    /\ Len(batches) >= 2
    /\ ~batches[1].closed
    /\ batches[2].closed
    /\ counterRequest >= 1
    /\ ~paused
    /\ \E c \in Addresses : providers[c]

\* C29: the error of openBatch and submitPayment follows the order role,
\* pause, cooldown, batch state: a caller that is no provider gets
\* NotProvider even while paused, a provider gets Paused while paused even
\* inside its cooldown, a provider inside its cooldown (now <
\* lastSubmissionTime + cooldownSeconds) gets CooldownActive even when no
\* batch is open, and only then the state of the latest batch decides.
C29_ErrorOrder ==
    \A c \in Addresses :
        /\ ~providers[c] =>
              /\ openBatchErr(c) = "NotProvider"
              /\ submitPaymentErr(c) = "NotProvider"
        /\ (providers[c] /\ paused) =>
              /\ openBatchErr(c) = "Paused"
              /\ submitPaymentErr(c) = "Paused"
        /\ (providers[c] /\ ~paused /\ ~Elapsed(lastSubmissionTime[c])) =>
              /\ openBatchErr(c) = "CooldownActive"
              /\ submitPaymentErr(c) = "CooldownActive"
        /\ (providers[c] /\ ~paused /\ Elapsed(lastSubmissionTime[c])) =>
              /\ openBatchErr(c) = "ok"
              /\ submitPaymentErr(c) =
                    IF LatestOpen THEN "ok" ELSE "BatchClosedOrNonexistent"

\* C30: after an openBatch or submitPayment of provider p at time t =
\* lastSubmissionTime[p], with the system not paused, openBatch and
\* submitPayment by p fail with CooldownActive at every time before t +
\* cooldownSeconds; closeBatch by p is decided by the role, the pause flag
\* and the latest batch alone, and a step that closes a batch writes no
\* time stamp.
C30_SharedSubmissionClock ==
    /\ [](\A p \in Addresses :
            /\ (/\ providers[p] /\ ~paused
                /\ lastSubmissionTime[p] > 0
                /\ ~Elapsed(lastSubmissionTime[p]))
               => /\ openBatchErr(p) = "CooldownActive"
                  /\ submitPaymentErr(p) = "CooldownActive"
            /\ (providers[p] /\ ~paused /\ LatestOpen) => closeBatchErr(p) = "ok")
    /\ [][Flipped # {} =>
            /\ lastSubmissionTime' = lastSubmissionTime
            /\ lastDecryptionRequestTime' = lastDecryptionRequestTime]_vars

\* C31: a time stamp is written with the positive time of the call, so a
\* participant that never passed a rate-limited call has the time stamp 0;
\* for such a participant, once role and pause checks pass, openBatch and
\* submitPayment pass the rate limiter exactly when now >= cooldownSeconds
\* and fail with CooldownActive when now < cooldownSeconds, and so does
\* requestBatchTotalDecryption; the sum 0 + cooldownSeconds never overflows.
C31_FirstAction ==
    /\ [](/\ now > 0
          /\ \A p \in Addresses :
                /\ (lastSubmissionTime[p] = 0 /\ providers[p] /\ ~paused) =>
                      /\ openBatchErr(p) = "ok" <=> now >= cooldownSeconds
                      /\ submitPaymentErr(p) \in {"ok", "BatchClosedOrNonexistent"}
                            <=> now >= cooldownSeconds
                      /\ now < cooldownSeconds =>
                            /\ openBatchErr(p) = "CooldownActive"
                            /\ submitPaymentErr(p) = "CooldownActive"
                /\ (lastDecryptionRequestTime[p] = 0 /\ ~paused) =>
                      \A b \in BatchIds :
                         /\ requestBatchTotalDecryptionErr(p, b) \in {"ok", "InvalidBatch"}
                               <=> now >= cooldownSeconds
                         /\ now < cooldownSeconds =>
                               requestBatchTotalDecryptionErr(p, b) = "CooldownActive")
    /\ [][\A p \in Addresses :
            /\ lastSubmissionTime'[p] # lastSubmissionTime[p]
                  => lastSubmissionTime'[p] = now
            /\ lastDecryptionRequestTime'[p] # lastDecryptionRequestTime[p]
                  => lastDecryptionRequestTime'[p] = now]_vars

\* a provider that never acted, with the system not paused, at a time below
\* the largest cooldown the owner can set, after the clock moved on
C31_Witness ==
    \E p \in Addresses :
        /\ providers[p] /\ ~paused
        /\ lastSubmissionTime[p] = 0
        /\ lastDecryptionRequestTime[p] = 0
        /\ cooldownSeconds = MaxUint256
        /\ now < cooldownSeconds
        /\ now > TimeStep

\* the ledger entries of p before position k
EarlierBy(p, k) == {j \in DOMAIN payments : j < k /\ payments[j].provider = p}

\* C32: the time stamps of the ledger do not decrease along the index;
\* lastSubmissionTime[p] is not beyond the clock and not below the time
\* stamp of any ledger entry of p; and a ledger entry of p lies at least the
\* cooldownSeconds in force at its acceptance after the entry of p before it.
C32_LedgerTimes ==
    /\ \A j, k \in DOMAIN payments :
          j <= k => payments[j].submissionTimestamp <= payments[k].submissionTimestamp
    /\ \A p \in Addresses :
          /\ lastSubmissionTime[p] <= now
          /\ \A k \in DOMAIN payments :
                payments[k].provider = p
                    => payments[k].submissionTimestamp <= lastSubmissionTime[p]
    /\ \A k \in DOMAIN payments :
          \A j \in EarlierBy(payments[k].provider, k) :
              payments[k].submissionTimestamp - payments[j].submissionTimestamp
                  >= paymentCooldown[k]
    /\ DOMAIN paymentCooldown = DOMAIN payments

\* three entries of one provider: the second accepted at the time of the
\* first under the cooldown 0, the third one default cooldown later under
\* the default cooldown
C32_Witness ==
    /\ Len(payments) >= 3
    /\ payments[1].provider = payments[2].provider
    /\ payments[2].provider = payments[3].provider
    /\ paymentCooldown[2] = 0
    /\ payments[2].submissionTimestamp = payments[1].submissionTimestamp
    /\ paymentCooldown[3] = DefaultCooldown
    /\ payments[3].submissionTimestamp - payments[2].submissionTimestamp
          = DefaultCooldown

\* a 32 bit unsigned value as two limbs
IsUint32(v) == v[1] \in 0..(Base - 1) /\ v[2] \in 0..(Base - 1)

\* C33: every contribution and every batch aggregate is a 32 bit unsigned
\* value, the aggregate being the sum of the batch's contributions modulo
\* 2^32; and submitPayment does not fail on account of the aggregate: a
\* provider past its cooldown, with the system not paused and the latest
\* batch open, is accepted with the largest contribution whatever the
\* aggregate is, and the new aggregate is the wrapped sum.
C33_Uint32Wraps ==
    /\ [](/\ \A k \in DOMAIN payments : IsUint32(payments[k].encryptedAmount.pt)
          /\ \A i \in DOMAIN batches :
                /\ IsUint32(batches[i].totalEncryptedAmount.pt)
                /\ batches[i].totalEncryptedAmount.pt
                      = SumMod32(Contributions(batches[i].id))
          /\ \A c \in Addresses :
                (/\ providers[c] /\ ~paused /\ LatestOpen
                 /\ Elapsed(lastSubmissionTime[c]))
                => submitPaymentErr(c) = "ok")
    /\ [][Len(payments') > Len(payments) =>
            LET e == payments'[Len(payments')].encryptedAmount.pt
                old == batches[Len(batches)].totalEncryptedAmount.pt
                new == batches'[Len(batches)].totalEncryptedAmount.pt
                lo == old[2] + e[2]
                hi == old[1] + e[1] + (lo \div Base)
            IN  /\ new[2] = lo % Base
                /\ new[1] = hi % Base
                /\ IsUint32(new)]_vars

\* a batch whose contributions add up to 2^32 or more, so that its aggregate
\* is below its largest contribution, still open for a provider that is
\* admitted with a further contribution
C33_Witness ==
    /\ LatestOpen
    /\ LET cs == Contributions(batches[Len(batches)].id) IN
       /\ NatSum(cs)[1] >= Base
       /\ batches[Len(batches)].totalEncryptedAmount.pt[1] < Base - 1
    /\ \E c \in Addresses : submitPaymentErr(c) = "ok"
====
